---- MODULE Spec2Model ----
(***************************************************************************)
(* lklibs::PgPool (libcpp-pg-pool.hpp): a fixed-size pool of PostgreSQL    *)
(* connections guarded by one mutex and one condition variable.            *)
(*                                                                         *)
(* The model follows the header statement by statement.  A critical        *)
(* section is two steps: taking the mutex, and the body up to the point    *)
(* where the mutex is given back (the end of the scope, or the wait on the *)
(* condition variable).                                                    *)
(***************************************************************************)
EXTENDS Integers, Sequences, FiniteSets, TLC

\* ---- bounds of the model ------------------------------------------------
MaxPoolSize == 2          \* pool sizes 1..MaxPoolSize are explored
NThreads == 2             \* threads that call acquire()
MaxRefs == 2              \* copies of one shared_ptr that may exist at once

Handles == 1..MaxPoolSize
Threads == 1..NThreads

\* result[t] of the last acquire() of thread t
NoResult == <<"none", 0>>
Err == <<"error", 0>>     \* std::runtime_error("Connection pool is shutting down")
Got(h) == <<"conn", h>>   \* a shared_ptr to connection h

\* owners of the mutex
Free == <<"free", 0>>
ByAcquire(t) == <<"acquire", t>>
ByReturn(h) == <<"return", h>>
ByDtor == <<"dtor", 0>>

VARIABLES
    poolSize,   \* PgPool::poolSize
    pool,       \* PgPool::pool, the queue of idle connections (front first)
    stop,       \* PgPool::stop
    mtx,        \* PgPool::mtx: who holds it
    life,       \* the PgPool object: "ctor", "failed", "alive", "dtor" (body runs),
                \*   "members" (body done, members not yet destroyed), "destroyed"
    conn,       \* every pqxx::connection: "none" (not opened), "open", "closed"
    lease,      \* lease[h]: the use counts of the shared_ptr control blocks on h
    ret,        \* ret[h]: deleters of h that called returnConnection and wait for mtx
    pc,         \* pc[t]: "idle", "check" (holds mtx, evaluates the wait predicate),
                \*   "wait" (blocked on connectionAvailable), "woken" (re-locking mtx)
    blocked,    \* blocked[t]: the current/last acquire() of t has waited on the cv
    result,     \* result[t]: what the last acquire() of t returned
    crashed     \* the process was aborted by an access to the destroyed pool

vars == <<poolSize, pool, stop, mtx, life, conn, lease, ret, pc, blocked, result, crashed>>

\* ---- helpers --------------------------------------------------------------
Range(s) == {s[i] : i \in 1..Len(s)}

\* occurrences of h in the queue
Count(s, h) == Cardinality({i \in 1..Len(s) : s[i] = h})

\* the sequence s without its i-th element
RemoveAt(s, i) == [j \in 1..(Len(s) - 1) |-> IF j < i THEN s[j] ELSE s[j + 1]]

\* threads blocked in connectionAvailable.wait
Waiters == {t \in Threads : pc[t] = "wait"}

\* handles lent to callers: a lease is outstanding, or its deleter is on its way
\* back to the pool
CheckedOut == {h \in Handles : lease[h] # <<>> \/ ret[h] > 0 \/ mtx = ByReturn(h)}

\* the PgPool object's storage is gone; every later access is a use after free
Dead == life = "destroyed"

Init ==
    /\ poolSize \in 1..MaxPoolSize
    /\ pool = <<>>
    /\ stop = FALSE
    /\ mtx = Free
    /\ life = "ctor"
    /\ conn = [h \in Handles |-> "none"]
    /\ lease = [h \in Handles |-> <<>>]
    /\ ret = [h \in Handles |-> 0]
    /\ pc = [t \in Threads |-> "idle"]
    /\ blocked = [t \in Threads |-> FALSE]
    /\ result = [t \in Threads |-> NoResult]
    /\ crashed = FALSE

\* ---- PgPool::PgPool -------------------------------------------------------
\* one iteration of the loop: createConnection() returns a connection, which is
\* pushed; after the last iteration the constructor returns
CtorOpen ==
    /\ life = "ctor" /\ ~crashed
    /\ Len(pool) < poolSize
    /\ LET h == Len(pool) + 1 IN
        /\ conn' = [conn EXCEPT ![h] = "open"]
        /\ pool' = Append(pool, h)
        /\ life' = IF Len(pool) + 1 = poolSize THEN "alive" ELSE "ctor"
    /\ UNCHANGED <<poolSize, stop, mtx, lease, ret, pc, blocked, result, crashed>>

\* a constructor failure that leaves the connections already opened as they are
CtorFailLeak ==
    /\ life = "ctor" /\ ~crashed
    /\ Len(pool) < poolSize
    /\ pool' = <<>>
    /\ life' = "failed"
    /\ UNCHANGED <<poolSize, stop, mtx, conn, lease, ret, pc, blocked, result, crashed>>

\* createConnection() throws: the exception leaves the constructor, the members
\* built so far are destroyed, and the queue's unique_ptrs close their connections
CtorFail ==
    /\ life = "ctor" /\ ~crashed
    /\ Len(pool) < poolSize
    /\ conn' = [h \in Handles |-> IF h \in Range(pool) THEN "closed" ELSE conn[h]]
    /\ pool' = <<>>
    /\ life' = "failed"
    /\ UNCHANGED <<poolSize, stop, mtx, lease, ret, pc, blocked, result, crashed>>

\* ---- PgPool::acquire ------------------------------------------------------
\* std::unique_lock<std::mutex> lock(mtx), on entry and when a wait ends
AcquireLock(t) ==
    /\ ~crashed
    /\ \/ pc[t] = "idle" /\ life \in {"alive", "dtor", "members"}
       \/ pc[t] = "woken"
    /\ mtx = Free
    /\ mtx' = ByAcquire(t)
    /\ pc' = [pc EXCEPT ![t] = "check"]
    /\ blocked' = [blocked EXCEPT ![t] = IF pc[t] = "idle" THEN FALSE ELSE @]
    /\ result' = [result EXCEPT ![t] = IF pc[t] = "idle" THEN NoResult ELSE @]
    /\ UNCHANGED <<poolSize, pool, stop, life, conn, lease, ret, crashed>>

\* a predicate that forgets the stop flag once the queue is non-empty
StopIfEmpty == stop /\ pool = <<>>

\* the test that makes acquire throw
ShuttingDown == stop

\* the predicate of connectionAvailable.wait
WaitPredicate == pool # <<>> \/ stop

\* a pop that leaves the front element in the queue
PopNothing(q) == q

\* a pop that empties the queue
PopAll(q) == <<>>

\* pool.pop()
Pop(q) == Tail(q)

\* std::shared_ptr<pqxx::connection>(conn.release(), deleter): a new control
\* block on h with use count 1
NewLease(l, h) == [l EXCEPT ![h] = Append(@, 1)]

\* the body of acquire from the predicate to the return, the throw or the wait
AcquireCheck(t) ==
    /\ ~crashed
    /\ pc[t] = "check" /\ mtx = ByAcquire(t)
    /\ mtx' = Free
    /\ IF ~WaitPredicate
       THEN /\ pc' = [pc EXCEPT ![t] = "wait"]
            /\ blocked' = [blocked EXCEPT ![t] = TRUE]
            /\ UNCHANGED <<pool, lease, result>>
       ELSE IF ShuttingDown
       THEN /\ pc' = [pc EXCEPT ![t] = "idle"]
            /\ result' = [result EXCEPT ![t] = Err]
            /\ UNCHANGED <<pool, lease, blocked>>
       ELSE /\ pc' = [pc EXCEPT ![t] = "idle"]
            /\ result' = [result EXCEPT ![t] = Got(Head(pool))]
            /\ lease' = NewLease(lease, Head(pool))
            /\ pool' = Pop(pool)
            /\ UNCHANGED blocked
    /\ UNCHANGED <<poolSize, stop, life, conn, ret, crashed>>

\* a wait on a std::condition_variable may end without a notification
SpuriousWake(t) ==
    /\ ~crashed
    /\ pc[t] = "wait"
    /\ pc' = [pc EXCEPT ![t] = "woken"]
    /\ UNCHANGED <<poolSize, pool, stop, mtx, life, conn, lease, ret, blocked, result, crashed>>

\* ---- std::shared_ptr<pqxx::connection> -----------------------------------
\* a caller copies its shared_ptr (SampleConsumer::setDbConnection)
CopyRef(h, i) ==
    /\ ~crashed
    /\ i \in 1..Len(lease[h])
    /\ lease[h][i] < MaxRefs
    /\ lease' = [lease EXCEPT ![h][i] = @ + 1]
    /\ UNCHANGED <<poolSize, pool, stop, mtx, life, conn, ret, pc, blocked, result, crashed>>

\* a deleter that runs on every drop
IsAnyRef(n) == n >= 1

\* whether dropping one of n references runs the deleter
IsLastRef(n) == n = 1

\* a shared_ptr goes out of scope; the last one runs the deleter, which calls
\* returnConnection and there waits for the mutex
DropRef(h, i) ==
    /\ ~crashed
    /\ i \in 1..Len(lease[h])
    /\ IF IsLastRef(lease[h][i])
       THEN /\ lease' = [lease EXCEPT ![h] = RemoveAt(@, i)]
            /\ ret' = [ret EXCEPT ![h] = @ + 1]
       ELSE /\ lease' = [lease EXCEPT ![h][i] = @ - 1]
            /\ ret' = ret
    /\ UNCHANGED <<poolSize, pool, stop, mtx, life, conn, pc, blocked, result, crashed>>

\* ---- PgPool::returnConnection --------------------------------------------
\* std::unique_lock<std::mutex> lock(mtx)
ReturnLock(h) ==
    /\ ~crashed
    /\ ret[h] > 0
    /\ mtx = Free
    /\ mtx' = ByReturn(h)
    /\ ret' = [ret EXCEPT ![h] = @ - 1]
    /\ UNCHANGED <<poolSize, pool, stop, life, conn, lease, pc, blocked, result, crashed>>

\* a push that loses the connection
PushDropped(q, h) == q

\* pool.push(std::unique_ptr<pqxx::connection>(conn))
Push(q, h) == Append(q, h)

\* a notify_one that wakes nobody
NotifyNobody(p) == {p}

\* connectionAvailable.notify_one(): the program positions p after it, one
\* waiter of p woken if there is any
NotifyOne(p) ==
    IF \E t \in Threads : p[t] = "wait"
    THEN {[p EXCEPT ![t] = "woken"] : t \in {u \in Threads : p[u] = "wait"}}
    ELSE {p}

\* the push and the notify_one, then the lock goes out of scope
ReturnConnection(h) ==
    /\ ~crashed
    /\ mtx = ByReturn(h)
    /\ pool' = Push(pool, h)
    /\ pc' \in NotifyOne(pc)
    /\ mtx' = Free
    /\ UNCHANGED <<poolSize, stop, life, conn, lease, ret, blocked, result, crashed>>

\* ---- PgPool::~PgPool ------------------------------------------------------
\* std::unique_lock<std::mutex> lock(mtx)
DtorLock ==
    /\ ~crashed
    /\ life = "alive"
    /\ mtx = Free
    /\ mtx' = ByDtor
    /\ life' = "dtor"
    /\ UNCHANGED <<poolSize, pool, stop, conn, lease, ret, pc, blocked, result, crashed>>

\* connectionAvailable.notify_all()
NotifyAll(p) == [t \in Threads |-> IF p[t] = "wait" THEN "woken" ELSE p[t]]

\* a drain that closes nothing
CloseNone(c, q) == c

\* a drain that also closes the connections that are checked out
CloseEvery(c, q) == [h \in Handles |-> IF c[h] = "none" THEN "none" ELSE "closed"]

\* the connections after every unique_ptr of the queue q was reset or destroyed
CloseAll(c, q) == [h \in Handles |-> IF h \in Range(q) THEN "closed" ELSE c[h]]

\* a destructor body that resets the connections but leaves them in the queue
DtorBodyKeepsQueue ==
    /\ ~crashed
    /\ life = "dtor" /\ mtx = ByDtor
    /\ stop' = TRUE
    /\ pc' = NotifyAll(pc)
    /\ conn' = CloseAll(conn, pool)
    /\ mtx' = Free
    /\ life' = "members"
    /\ UNCHANGED <<poolSize, pool, lease, ret, blocked, result, crashed>>

\* a destructor body that forgets to set the stop flag
DtorBodyNoStop ==
    /\ ~crashed
    /\ life = "dtor" /\ mtx = ByDtor
    /\ pc' = NotifyAll(pc)
    /\ conn' = CloseAll(conn, pool)
    /\ pool' = <<>>
    /\ mtx' = Free
    /\ life' = "members"
    /\ UNCHANGED <<poolSize, stop, lease, ret, blocked, result, crashed>>

\* stop = true, notify_all, the loop that empties the queue and resets every
\* connection, then the lock goes out of scope
DtorBody ==
    /\ ~crashed
    /\ life = "dtor" /\ mtx = ByDtor
    /\ stop' = TRUE
    /\ pc' = NotifyAll(pc)
    /\ conn' = CloseAll(conn, pool)
    /\ pool' = <<>>
    /\ mtx' = Free
    /\ life' = "members"
    /\ UNCHANGED <<poolSize, lease, ret, blocked, result, crashed>>

\* a destructor that waits until every lease has come back
DtorMembersWaits ==
    /\ ~crashed
    /\ life = "members"
    /\ \A h \in Handles : lease[h] = <<>> /\ ret[h] = 0 /\ mtx # ByReturn(h)
    /\ conn' = CloseAll(conn, pool)
    /\ pool' = <<>>
    /\ life' = "destroyed"
    /\ UNCHANGED <<poolSize, stop, mtx, lease, ret, pc, blocked, result, crashed>>

\* after the body the members are destroyed in reverse order of declaration:
\* stop, connectionAvailable, mtx, then pool, whose destructor closes what was
\* pushed since the drain
DtorMembers ==
    /\ ~crashed
    /\ life = "members"
    /\ conn' = CloseAll(conn, pool)
    /\ pool' = <<>>
    /\ life' = "destroyed"
    /\ UNCHANGED <<poolSize, stop, mtx, lease, ret, pc, blocked, result, crashed>>

\* ---- use of the pool after its destruction --------------------------------
\* a thread that is inside acquire() or returnConnection() when the members are
\* destroyed goes on to use mtx, stop and pool of a dead object
PendingAccess ==
    \/ \E t \in Threads : pc[t] \in {"woken", "check"}
    \/ \E h \in Handles : ret[h] > 0 \/ mtx = ByReturn(h)

\* that use is undefined: either the storage still reads as it was left (the
\* actions above go on as written), or the process is aborted
Crash ==
    /\ ~crashed
    /\ Dead /\ PendingAccess
    /\ crashed' = TRUE
    /\ UNCHANGED <<poolSize, pool, stop, mtx, life, conn, lease, ret, pc, blocked, result>>

Next ==
    \/ CtorOpen
    \/ CtorFail
    \/ \E t \in Threads : AcquireLock(t)
    \/ \E t \in Threads : AcquireCheck(t)
    \/ \E t \in Threads : SpuriousWake(t)
    \/ \E h \in Handles : \E i \in 1..MaxRefs : CopyRef(h, i)
    \/ \E h \in Handles : \E i \in 1..MaxRefs : DropRef(h, i)
    \/ \E h \in Handles : ReturnLock(h)
    \/ \E h \in Handles : ReturnConnection(h)
    \/ DtorLock
    \/ DtorBody
    \/ DtorMembers
    \/ Crash

Spec == Init /\ [][Next]_vars

\* "no release, no shutdown": the runs in which a fresh pool is only acquired from
NextFresh ==
    \/ CtorOpen
    \/ CtorFail
    \/ \E t \in Threads : AcquireLock(t)
    \/ \E t \in Threads : AcquireCheck(t)
    \/ \E t \in Threads : SpuriousWake(t)
    \/ \E h \in Handles : \E i \in 1..MaxRefs : CopyRef(h, i)

SpecFresh == Init /\ [][NextFresh]_vars

\* ---- fair scheduling ------------------------------------------------------
\* the step in which a woken call of t gets the mutex back
Relock(t) == pc[t] = "woken" /\ AcquireLock(t)

\* a thread that holds the mutex goes on; a thread that contends for a mutex that
\* is free again and again gets it in the end; a destructor that has begun goes
\* on.  Nobody is obliged to call acquire, to drop a reference or to destroy the
\* pool.
Fairness ==
    /\ \A t \in Threads : WF_vars(AcquireCheck(t)) /\ SF_vars(Relock(t))
    /\ \A h \in Handles : SF_vars(ReturnLock(h)) /\ WF_vars(ReturnConnection(h))
    /\ WF_vars(DtorBody) /\ WF_vars(DtorMembers)

\* the runs checked for liveness: pools of 1..LivePoolSize connections that are
\* constructed without failure, every lease held by one owner
LivePoolSize == 1

InitLive == Init /\ poolSize <= LivePoolSize

NextLive ==
    \/ CtorOpen
    \/ \E t \in Threads : AcquireLock(t)
    \/ \E t \in Threads : AcquireCheck(t)
    \/ \E t \in Threads : SpuriousWake(t)
    \/ \E h \in Handles : DropRef(h, 1)
    \/ \E h \in Handles : ReturnLock(h)
    \/ \E h \in Handles : ReturnConnection(h)
    \/ DtorLock
    \/ DtorBody
    \/ DtorMembers
    \/ Crash

FairSpec == InitLive /\ [][NextLive]_vars /\ Fairness

\* ---- properties -----------------------------------------------------------
\* the pool object is constructed and its destructor has not yet drained it
Running == life \in {"alive", "dtor"} /\ ~stop

\* C1: from the end of construction until the destructor drains the queue, the
\* idle handles plus the checked-out handles are poolSize, and every handle
\* opened by the constructor is open (none created, none destroyed).
C1_Conservation ==
    Running =>
        /\ Len(pool) + Cardinality(CheckedOut) = poolSize
        /\ \A h \in Handles : conn[h] = (IF h <= poolSize THEN "open" ELSE "none")

\* C1 witness: a running pool of two with one handle idle and the other on its
\* way back through the release hook.
C1_Witness ==
    /\ Running /\ poolSize = 2
    /\ Len(pool) = 1
    /\ \E h \in Handles : ret[h] > 0

\* C2: a handle is wrapped by at most one lease at a time, is never twice in the
\* idle set, and is never in the idle set while it is checked out.
C2_Exclusive ==
    \A h \in Handles :
        /\ Len(lease[h]) <= 1
        /\ Count(pool, h) <= 1
        /\ h \in Range(pool) => h \notin CheckedOut

\* C2 witness: in a pool of one, both threads were handed the same handle (so a
\* release lies in between) and exactly one lease wraps it now.
C2_Witness ==
    /\ poolSize = 1
    /\ result[1] = Got(1) /\ result[2] = Got(1)
    /\ Len(lease[1]) = 1

\* C3 (as claimed): after shutdown no blocked acquire call is left hanging: when
\* the run can go no further, every thread that waited in acquire has left it.
C3_AsClaimed ==
    (stop /\ ~ENABLED Next) => \A t \in Threads : blocked[t] => pc[t] = "idle"

\* C4: on a fresh running pool with no release, an acquire that leaves its
\* predicate check returns a handle without having waited while fewer than
\* poolSize handles are out, and waits once all poolSize are out.
C4_FirstNThenBlock ==
    [][\A t \in Threads :
        (pc[t] = "check" /\ pc'[t] # "check") =>
            IF Cardinality(CheckedOut) < poolSize
            THEN /\ pc'[t] = "idle"
                 /\ \E h \in Handles : result'[t] = Got(h) /\ h \notin CheckedOut
                 /\ ~blocked'[t]
                 /\ Cardinality(CheckedOut') = Cardinality(CheckedOut) + 1
            ELSE /\ pc'[t] = "wait"
                 /\ CheckedOut' = CheckedOut]_vars

\* C4 witness: a pool of two, both handles handed out, and the third call blocked.
C4_Witness ==
    /\ poolSize = 2 /\ life = "alive"
    /\ Cardinality(CheckedOut) = 2
    /\ \E t \in Threads : pc[t] = "wait" /\ blocked[t]

\* the release hooks of h that are running or have put h back
Returned(h) == Count(pool, h) + ret[h] + (IF mtx = ByReturn(h) THEN 1 ELSE 0)

\* C5: dropping a reference while another remains runs no release hook and
\* leaves the idle set alone; dropping the last one runs the hook once; the
\* handle is never put back twice, and not at all while a reference remains.
C5_ReleaseOnce ==
    /\ [](\A h \in Handles :
            /\ Returned(h) <= 1
            /\ lease[h] # <<>> => Returned(h) = 0)
    /\ [][\A h \in Handles :
            Len(lease[h]) = 1 =>
                /\ (Len(lease'[h]) = 1 /\ lease'[h][1] < lease[h][1]) =>
                        (ret'[h] = ret[h] /\ pool' = pool)
                /\ lease'[h] = <<>> =>
                        (lease[h][1] = 1 /\ ret'[h] = ret[h] + 1 /\ pool' = pool)]_vars

\* C5 witness: a lease shared by two owners, its handle not in the idle set and
\* no release hook under way.
C5_Witness ==
    \E h \in Handles : lease[h] = <<2>> /\ Returned(h) = 0 /\ life = "alive"

\* C6: while a reference to its lease is outstanding a handle is open and not in
\* the idle set, whatever the other owners and the destructor do.
C6_OpenWhileHeld ==
    \A h \in Handles :
        lease[h] # <<>> => (conn[h] = "open" /\ h \notin Range(pool))

\* C6 witness: the pool is destroyed, one owner of a shared lease has dropped its
\* reference, and the connection is still open.
C6_Witness ==
    \E h \in Handles : Dead /\ lease[h] = <<1>> /\ conn[h] = "open"

\* a blocked call other than t's is waiting or re-locking after a wake-up
OtherBlocked(t) ==
    \E u \in Threads : u # t /\ blocked[u] /\ pc[u] \in {"wait", "woken"}

\* C7 (as claimed): the handle a release gives back while calls are blocked goes
\* to one of those blocked calls: the last idle handle of a running pool is
\* never taken by a call that has not waited while a blocked call is pending.
C7_AsClaimed ==
    [][\A t \in Threads :
        (/\ ~stop /\ pc[t] = "check" /\ pc'[t] = "idle"
         /\ Len(pool) = 1 /\ OtherBlocked(t)) => blocked[t]]_vars

\* C7 (amended): a release on a running pool with blocked calls puts the handle
\* in the idle set and wakes exactly one of them, the others stay blocked; a
\* woken call succeeds with the front handle if the idle set is non-empty when
\* it holds the lock again, and goes back to waiting otherwise.
C7_WakesOne ==
    /\ [][\A h \in Handles :
            (mtx = ByReturn(h) /\ mtx' = Free /\ ~stop /\ Waiters # {}) =>
                /\ pool' = Append(pool, h)
                /\ Waiters' \subseteq Waiters
                /\ Cardinality(Waiters \ Waiters') = 1
                /\ \A u \in Waiters \ Waiters' : pc'[u] = "woken"]_vars
    /\ [][\A t \in Threads :
            (pc[t] = "check" /\ blocked[t] /\ ~stop /\ pc'[t] # "check") =>
                IF pool # <<>>
                THEN pc'[t] = "idle" /\ result'[t] = Got(Head(pool)) /\ pool' = Tail(pool)
                ELSE pc'[t] = "wait" /\ pool' = pool]_vars

\* C7 witness: two calls were blocked on a running pool, a release has put a
\* handle back, one call is woken and the other still waits.
C7_Witness ==
    /\ ~stop /\ pool # <<>>
    /\ pc[1] = "woken" /\ pc[2] = "wait"
    /\ blocked[1] /\ blocked[2]

\* C8: an acquire that finds the pool draining returns the error and leaves the
\* idle set, the leases, the connections and the state as they were.
C8_DrainingNoEffect ==
    [][\A t \in Threads :
        (pc[t] = "check" /\ stop /\ pc'[t] # "check") =>
            /\ pc'[t] = "idle" /\ result'[t] = Err
            /\ pool' = pool /\ lease' = lease /\ conn' = conn
            /\ stop' = stop /\ ret' = ret]_vars

\* C8 witness: a call ended with the error while the pool object still existed,
\* was draining and had a handle in its idle set.
C8_Witness ==
    \E t \in Threads :
        /\ result[t] = Err /\ pc[t] = "idle"
        /\ stop /\ life = "members" /\ pool # <<>>

\* C9 (as claimed): a release hook that runs after the pool is destroyed closes
\* its handle and does not put it in the idle set.
C9_AsClaimed ==
    [][\A h \in Handles :
        (Dead /\ mtx = ByReturn(h) /\ mtx' = Free) =>
            (conn'[h] = "closed" /\ pool' = pool)]_vars

\* no lease is outstanding and no release hook is under way
AllReleased ==
    \A h \in Handles : lease[h] = <<>> /\ ret[h] = 0 /\ mtx # ByReturn(h)

\* C10 (as claimed): once the pool is gone and every lease has been released,
\* no connection the constructor opened is still open.
C10_AsClaimed ==
    (Dead /\ AllReleased) => \A h \in Handles : conn[h] # "open"

\* C11 (as claimed): under fair scheduling, if handles keep coming back to the
\* idle set or the pool is shut down, every thread blocked in acquire leaves
\* acquire in the end.
C11_AsClaimed ==
    []<>(pool # <<>> \/ stop) =>
        \A t \in Threads : (pc[t] = "wait") ~> (pc[t] = "idle")

\* a running pool with an idle handle and a thread blocked on the condition
HandleIdleWhileBlocked == ~stop /\ pool # <<>> /\ Waiters # {}

C12_AllOrNothing ==
    /\ life = "failed" =>
        /\ pool = <<>>
        /\ \A h \in Handles : conn[h] # "open" /\ lease[h] = <<>>
        /\ \A t \in Threads : pc[t] = "idle" /\ result[t] = NoResult
        /\ \A t \in Threads : ~ENABLED AcquireLock(t)
    /\ life = "ctor" =>
        /\ \A t \in Threads : pc[t] = "idle" /\ ~ENABLED AcquireLock(t)
        /\ \A h \in Handles : conn[h] = (IF h <= Len(pool) THEN "open" ELSE "none")

\* C12 witness: the second open of a pool of two failed after the first had
\* succeeded, and the first connection is closed.
C12_Witness ==
    life = "failed" /\ poolSize = 2 /\ conn[1] = "closed" /\ conn[2] = "none"

\* C14: the stop flag is false from construction on, becomes true in the
\* destructor's body and nowhere else, and once true stays true.
C14_StopOnce ==
    /\ [](stop <=> life \in {"members", "destroyed"})
    /\ [][stop => stop']_vars
    /\ [][(~stop /\ stop') => (life = "dtor" /\ mtx = ByDtor /\ life' = "members")]_vars

\* C14 witness: the flag is set, the pool is destroyed, and an acquire has
\* since ended with the error.
C14_Witness ==
    stop /\ Dead /\ \E t \in Threads : result[t] = Err

\* C16: the destructor's drain leaves the idle set empty, closes every handle
\* that was idle when it took the lock, and leaves the state of every
\* checked-out handle as it was; the same holds when the members are destroyed.
C16_DrainsIdleOnly ==
    [][(life \in {"dtor", "members"} /\ life' # life) =>
        /\ pool' = <<>>
        /\ \A h \in Range(pool) : conn'[h] = "closed"
        /\ \A h \in Handles \ Range(pool) : conn'[h] = conn[h]
        /\ lease' = lease /\ ret' = ret]_vars

\* C16 witness: the destructor is done; of a pool of two one handle was idle
\* and is closed, the other is checked out and open.
C16_Witness ==
    /\ Dead /\ poolSize = 2 /\ pool = <<>>
    /\ \E h, g \in Handles : conn[h] = "closed" /\ conn[g] = "open" /\ lease[g] # <<>>

\* C13: an acquire ends in one of two ways, with the error or with a handle that
\* is open at that moment; the idle set never holds a closed handle.
C13_ReturnsOpen ==
    /\ [](\A h \in Range(pool) : conn[h] = "open")
    /\ [][\A t \in Threads :
            (pc[t] = "check" /\ pc'[t] = "idle") =>
                \/ result'[t] = Err /\ stop
                \/ \E h \in Handles :
                        result'[t] = Got(h) /\ conn'[h] = "open" /\ lease'[h] # <<>>]_vars

\* C13 witness: after the drain closed one handle of a pool of two, an acquire
\* ended with the error while the other handle sat open in the idle set.
C13_Witness ==
    /\ stop /\ life = "members" /\ poolSize = 2
    /\ \E h \in Handles : conn[h] = "closed"
    /\ \E g \in Range(pool) : conn[g] = "open"
    /\ \E t \in Threads : result[t] = Err /\ pc[t] = "idle"

\* t is the one call that is blocked (waiting, or woken and re-locking)
SoleBlocked(t) ==
    /\ blocked[t] /\ pc[t] \in {"wait", "woken"}
    /\ \A u \in Threads \ {t} : pc[u] \notin {"wait", "woken"}

\* C15 (as claimed): with all handles out but the one just released and exactly
\* one call blocked on a running pool, no other call takes that handle.
C15_AsClaimed ==
    [][\A t, u \in Threads :
        (/\ ~stop /\ SoleBlocked(t) /\ u # t
         /\ Len(pool) = 1 /\ Cardinality(CheckedOut) = poolSize - 1
         /\ pc[u] = "check" /\ pc'[u] = "idle") => pool' = pool]_vars

\* C15 (amended): with all poolSize handles out and exactly one call waiting on
\* a running pool, a release puts its handle alone in the idle set and wakes
\* that call; a blocked call that next holds the lock while that handle is
\* still the idle set of a running pool returns exactly that handle, leased once.
C15_GetsReleased ==
    /\ [][\A h \in Handles : \A t \in Threads :
            (/\ mtx = ByReturn(h) /\ mtx' = Free /\ ~stop
             /\ pool = <<>> /\ Waiters = {t}) =>
                (pool' = <<h>> /\ pc'[t] = "woken")]_vars
    /\ [][\A h \in Handles : \A t \in Threads :
            (/\ pc[t] = "check" /\ blocked[t] /\ ~stop
             /\ pool = <<h>> /\ pc'[t] # "check") =>
                /\ pc'[t] = "idle" /\ result'[t] = Got(h)
                /\ pool' = <<>> /\ lease'[h] = <<1>>]_vars

\* C15 witness: a pool of two, one handle out, the other just released into the
\* empty idle set, and the one blocked call woken for it.
C15_Witness ==
    /\ ~stop /\ life = "alive" /\ poolSize = 2
    /\ Len(pool) = 1 /\ Cardinality(CheckedOut) = 1
    /\ \E t \in Threads : SoleBlocked(t) /\ pc[t] = "woken"

\* C17 (as claimed): after construction the idle set and the stop flag change
\* only in a step of the thread that holds the mutex, and a thread waiting on
\* the condition does not hold it.
C17_AsClaimed ==
    /\ [](\A t \in Threads : pc[t] = "wait" => mtx # ByAcquire(t))
    /\ [][(life # "ctor" /\ (pool' # pool \/ stop' # stop)) =>
            (mtx # Free /\ mtx' = Free)]_vars

\* C19: a destructor that has the lock runs to its end: neither its body nor
\* the destruction of the members waits for a lease, and under fair scheduling
\* the pool is destroyed in the end, outstanding leases or not.
C19_ShutdownTerminates ==
    /\ [](life = "dtor" => ENABLED DtorBody)
    /\ [](life = "members" => ENABLED DtorMembers)
    /\ (life = "dtor") ~> Dead

\* C19 witness: the pool is destroyed, no thread is inside it, and a lease that
\* was never released still refers to it.
C19_Witness ==
    /\ Dead /\ ~crashed /\ mtx = Free
    /\ \A t \in Threads : pc[t] = "idle"
    /\ \E h \in Handles : lease[h] # <<>> /\ conn[h] = "open"

====
